---------------------------- MODULE Spec2Model ----------------------------
(***************************************************************************)
(* A model of UFWManager (src/ufwmanager.py): the annotation stores keyed  *)
(* by the positional index of a firewall rule, their files, the rule       *)
(* snapshot, and the handlers of the session loop that keep them aligned   *)
(* with the external tool.                                                 *)
(*                                                                         *)
(* A string is a sequence of one-character strings.  A dict is a function  *)
(* whose domain is a set of strings (the keys are strings in the source).  *)
(***************************************************************************)
EXTENDS Integers, Sequences, FiniteSets, TLC

VARIABLES
    ext,            \* the external tool's rule list: a sequence of descriptions
    rules,          \* self.rules: sequence of <<number string, description>>
    ufw_status,     \* self.ufw_status
    selected_index, \* self.selected_index (0-based)
    status_message, \* the message the footer shows for the finished cycle
    notes,          \* self.notes
    services,       \* self.services
    notes_file,     \* contents of notes.txt: a sequence of lines
    services_file,  \* contents of services.txt
    pc,             \* "start", "main" (waiting in getch), "done"
    last,           \* history: the handler that ran last, its dialog outcome
                    \* and the external commands it issued
    lastFetch,      \* history: the rule list of the last successful fetch
    form_in,        \* command builder check: the committed form fields
    form_out,       \* command builder check: the form's result
    saved_from      \* round-trip check: the store that was saved

vars == <<ext, rules, ufw_status, selected_index, status_message, notes,
          services, notes_file, services_file, pc, last, lastFetch,
          form_in, form_out, saved_from>>

storeVars == <<notes, services, notes_file, services_file>>
formVars == <<form_in, form_out>>

-----------------------------------------------------------------------------
(* Strings *)

Digits == {"0", "1", "2", "3", "4", "5", "6", "7", "8", "9"}

DigitVal(c) ==
    CASE c = "0" -> 0 [] c = "1" -> 1 [] c = "2" -> 2 [] c = "3" -> 3
      [] c = "4" -> 4 [] c = "5" -> 5 [] c = "6" -> 6 [] c = "7" -> 7
      [] c = "8" -> 8 [] c = "9" -> 9

DigitChar(n) == CHOOSE c \in Digits : DigitVal(c) = n

\* str.isdigit() on the characters a form or the tool can produce
IsDigitStr(s) == s # <<>> /\ \A i \in 1..Len(s) : s[i] \in Digits

RECURSIVE StrToInt(_)
StrToInt(s) ==
    IF Len(s) = 0 THEN 0
    ELSE 10 * StrToInt(SubSeq(s, 1, Len(s) - 1)) + DigitVal(s[Len(s)])

RECURSIVE IntToStr(_)
IntToStr(n) ==
    IF n < 10 THEN <<DigitChar(n)>>
    ELSE IntToStr(n \div 10) \o <<DigitChar(n % 10)>>

IsSpace(c) == c = " "

RECURSIVE LStrip(_)
LStrip(s) == IF s # <<>> /\ IsSpace(Head(s)) THEN LStrip(Tail(s)) ELSE s

RECURSIVE RStrip(_)
RStrip(s) ==
    IF s # <<>> /\ IsSpace(s[Len(s)]) THEN RStrip(SubSeq(s, 1, Len(s) - 1))
    ELSE s

\* str.strip()
Strip(s) == RStrip(LStrip(s))

LowerChar(c) ==
    CASE c = "A" -> "a" [] c = "B" -> "b" [] c = "C" -> "c" [] c = "D" -> "d"
      [] c = "E" -> "e" [] c = "F" -> "f" [] c = "G" -> "g" [] c = "H" -> "h"
      [] c = "I" -> "i" [] c = "J" -> "j" [] c = "K" -> "k" [] c = "L" -> "l"
      [] c = "M" -> "m" [] c = "N" -> "n" [] c = "O" -> "o" [] c = "P" -> "p"
      [] c = "Q" -> "q" [] c = "R" -> "r" [] c = "S" -> "s" [] c = "T" -> "t"
      [] c = "U" -> "u" [] c = "V" -> "v" [] c = "W" -> "w" [] c = "X" -> "x"
      [] c = "Y" -> "y" [] c = "Z" -> "z" [] OTHER -> c

\* str.lower()
Lower(s) == [i \in 1..Len(s) |-> LowerChar(s[i])]

-----------------------------------------------------------------------------
(* Dicts *)

EmptyDict == [k \in {} |-> <<>>]

Put(d, k, v) == [x \in DOMAIN d \cup {k} |-> IF x = k THEN v ELSE d[x]]

Del(d, k) == [x \in DOMAIN d \ {k} |-> d[x]]

-----------------------------------------------------------------------------
(* The annotation files *)

\* f"{num}:{text}\n" (the newline is the end of the sequence)
Line(num, text) == num \o <<":">> \o text

\* the keys of d that are digit strings, ascending by int(key)
RECURSIVE SortedKeys(_)
SortedKeys(ks) ==
    IF ks = {} THEN <<>>
    ELSE LET m == CHOOSE k \in ks : \A j \in ks : StrToInt(k) <= StrToInt(j)
         IN  <<m>> \o SortedKeys(ks \ {m})

\* _save_notes_or_services: the lines written to the file
SaveLines(d) ==
    LET order == SortedKeys({k \in DOMAIN d : IsDigitStr(k)})
    IN  [i \in 1..Len(order) |-> Line(order[i], d[order[i]])]

\* the position of the first ':' of a line, 0 when it has none
FirstColon(line) ==
    IF \E i \in 1..Len(line) : line[i] = ":"
    THEN CHOOSE i \in 1..Len(line) :
            line[i] = ":" /\ \A j \in 1..(i - 1) : line[j] # ":"
    ELSE 0

\* one iteration of the loop over the lines of a file
LoadLine(d, line) ==
    LET c    == FirstColon(line)
        num  == Strip(SubSeq(line, 1, c - 1))
        text == Strip(SubSeq(line, c + 1, Len(line)))
    IN  IF c # 0 /\ IsDigitStr(num) THEN Put(d, num, text) ELSE d

RECURSIVE LoadFrom(_, _)
LoadFrom(d, lines) ==
    IF lines = <<>> THEN d ELSE LoadFrom(LoadLine(d, Head(lines)), Tail(lines))

\* _setup_and_load_files, for one file: clear the dict, then read every line
LoadLines(lines) == LoadFrom(EmptyDict, lines)

-----------------------------------------------------------------------------
(* The rule form: _get_rule_input_from_form *)

actions == << <<"a","l","l","o","w">>, <<"d","e","n","y">>,
              <<"r","e","j","e","c","t">>, <<"l","i","m","i","t">> >>
protocols == << <<"t","c","p">>, <<"u","d","p">>, <<"a","n","y">> >>
directions == << <<"i","n">>, <<"o","u","t">> >>

field_order == <<"Action", "Direction", "Protocol", "Port", "From/To IP",
                 "Service", "Note">>

PortMax == 5
IpMax == 15
ServiceMax == 18
NoteMax == 43

\* the rule descriptions the tool's listing shows, as words
DescWords(d) ==
    CASE d = "A" -> << <<"2","2","/","t","c","p">>, <<"A","L","L","O","W">>,
                       <<"I","N">>, <<"A","n","y","w","h","e","r","e">> >>
      [] d = "B" -> << <<"8","0">>, <<"D","E","N","Y">>, <<"I","N">>,
                       <<"1","0",".","0",".","0",".","5">> >>
      [] d = "C" -> << <<"5","3">>, <<"A","L","L","O","W">>, <<"O","U","T">>,
                       <<"A","n","y","w","h","e","r","e">> >>
      \* a listing line in which nothing follows the action phrase
      [] d = "D" -> << <<"2","2">>, <<"A","L","L","O","W">>, <<"I","N">> >>
      \* a listing line without an action token
      [] d = "E" -> << <<"2","2">>, <<"o","n">>, <<"e","t","h","0">> >>
      \* a listing line whose source address has more than 15 characters
      [] d = "F" -> << <<"2","2">>, <<"A","L","L","O","W">>, <<"I","N">>,
                       <<"1","9","2",".","1","6","8",".","1","0","0",".",
                         "2","0","0","/","2","4">> >>

DescOrder == <<"A", "B", "C">>

\* needle in hay, for strings without spaces
Contains(hay, needle) ==
    \E i \in 1..(Len(hay) - Len(needle) + 1) :
        SubSeq(hay, i, i + Len(needle) - 1) = needle

\* the first run of digits of a word, <<>> when it has none: re.search(r'(\d+)')
RECURSIVE DigitRun(_)
DigitRun(w) ==
    IF w = <<>> THEN <<>>
    ELSE IF Head(w) \in Digits
         THEN LET RECURSIVE Run(_)
                  Run(x) == IF x # <<>> /\ Head(x) \in Digits
                            THEN <<Head(x)>> \o Run(Tail(x)) ELSE <<>>
              IN  Run(w)
         ELSE DigitRun(Tail(w))

RECURSIVE FirstDigitRun(_)
FirstDigitRun(ws) ==
    IF ws = <<>> THEN <<>>
    ELSE IF DigitRun(Head(ws)) # <<>> THEN DigitRun(Head(ws))
         ELSE FirstDigitRun(Tail(ws))

\* the last index i (0-based) of opts with opts[i] in the text, else dflt
LastMatch(opts, P(_), dflt) ==
    LET hits == {i \in 1..Len(opts) : P(opts[i])}
    IN  IF hits = {} THEN dflt
        ELSE (CHOOSE i \in hits : \A j \in hits : j <= i) - 1

IsAction(w) == \E i \in 1..Len(actions) : actions[i] = w

\* the words that follow the first action phrase of ws, the phrase being a
\* word of acts, then dirs[1] if it follows, then dirs[2] if it follows
AfterPhrase(ws, acts, dirs) ==
    LET hits == {i \in 1..Len(ws) : \E k \in 1..Len(acts) : acts[k] = ws[i]}
    IN  IF hits = {} THEN [found |-> FALSE, rest |-> <<>>]
        ELSE LET a == CHOOSE i \in hits : \A j \in hits : i <= j
                 b == IF a + 1 <= Len(ws) /\ ws[a + 1] = dirs[1]
                      THEN a + 1 ELSE a
                 c == IF b + 1 <= Len(ws) /\ ws[b + 1] = dirs[2]
                      THEN b + 1 ELSE b
             IN  [found |-> TRUE, rest |-> SubSeq(ws, c + 1, Len(ws))]

\* the words that follow the action phrase
\* r'\b(allow|deny|reject|limit)\b(\s+in)?(\s+out)?'
AfterAction(ws) == AfterPhrase(ws, actions, directions)

DefaultFields ==
    [action |-> 0, direction |-> 0, protocol |-> 0, port |-> <<>>,
     ip |-> <<"a","n","y">>, service |-> <<>>, note |-> <<>>, idx |-> 0,
     crashed |-> FALSE]

Get(d, k) == IF k \in DOMAIN d THEN d[k] ELSE <<>>

\* the fields of the form that edits existing_rule = <<number, description>>;
\* existing_rule is <<>> for None
ParsedFields(existing_rule, svc, nts) ==
    LET rule_num == existing_rule[1]
        raw      == DescWords(existing_rule[2])
        ws       == [i \in 1..Len(raw) |-> Lower(raw[i])]
        InText(a) == \E i \in 1..Len(ws) : Contains(ws[i], a)
        Spaced(dr) == \E i \in 2..(Len(ws) - 1) : ws[i] = dr
        after    == AfterAction(ws)
        portrun  == FirstDigitRun(ws)
    IN  [action    |-> LastMatch(actions, InText, 0),
         direction |-> LastMatch(directions, Spaced, 0),
         protocol  |-> 0,
         port      |-> IF portrun # <<>> THEN portrun ELSE <<>>,
         ip        |-> IF ~after.found \/ after.rest = <<>>
                       THEN <<"a","n","y">>
                       ELSE IF after.rest[1] # <<"a","n","y","w","h","e","r","e">>
                            THEN after.rest[1] ELSE <<"a","n","y">>,
         service   |-> Get(svc, rule_num),
         note      |-> Get(nts, rule_num),
         idx       |-> 0,
         \* from_part.split()[0] on an empty from_part raises IndexError
         crashed   |-> after.found /\ after.rest = <<>>]

FormInit(existing_rule, svc, nts) ==
    IF existing_rule = <<>> THEN DefaultFields
    ELSE ParsedFields(existing_rule, svc, nts)

TermKeys == {"ENTER", "ESC"}
NavKeys == {"UP", "DOWN", "BTAB", "TAB", "LEFT", "RIGHT", "BKSP"}

FieldName(f) == field_order[f.idx + 1]

DropLast(s) == SubSeq(s, 1, Len(s) - 1)

\* one pass of the form's key loop for a key that is neither Enter nor Escape
FormKey(f, key) ==
    LET name == FieldName(f)
        n    == Len(field_order)
    IN  IF key \in {"UP", "BTAB"} THEN [f EXCEPT !.idx = (f.idx - 1 + n) % n]
        ELSE IF key \in {"DOWN", "TAB"} THEN [f EXCEPT !.idx = (f.idx + 1) % n]
        ELSE IF name = "Action" THEN
            IF key = "LEFT"
            THEN [f EXCEPT !.action = (f.action - 1 + Len(actions)) % Len(actions)]
            ELSE IF key = "RIGHT"
            THEN [f EXCEPT !.action = (f.action + 1) % Len(actions)]
            ELSE f
        ELSE IF name = "Direction" THEN
            IF key = "LEFT"
            THEN [f EXCEPT !.direction =
                     (f.direction - 1 + Len(directions)) % Len(directions)]
            ELSE IF key = "RIGHT"
            THEN [f EXCEPT !.direction = (f.direction + 1) % Len(directions)]
            ELSE f
        ELSE IF name = "Protocol" THEN
            IF key = "LEFT"
            THEN [f EXCEPT !.protocol =
                     (f.protocol - 1 + Len(protocols)) % Len(protocols)]
            ELSE IF key = "RIGHT"
            THEN [f EXCEPT !.protocol = (f.protocol + 1) % Len(protocols)]
            ELSE f
        ELSE IF key = "BKSP" THEN
            CASE name = "Port"       -> [f EXCEPT !.port = DropLast(f.port)]
              [] name = "From/To IP" -> [f EXCEPT !.ip = DropLast(f.ip)]
              [] name = "Service"    -> [f EXCEPT !.service = DropLast(f.service)]
              [] name = "Note"       -> [f EXCEPT !.note = DropLast(f.note)]
        ELSE IF key \in NavKeys THEN f
        ELSE \* a printable character, 32 <= key <= 126
            CASE name = "Port" ->
                    IF Len(f.port) >= PortMax THEN f
                    ELSE [f EXCEPT !.port = Append(f.port, key)]
              [] name = "From/To IP" ->
                    IF Len(f.ip) >= IpMax THEN f
                    ELSE [f EXCEPT !.ip = Append(f.ip, key)]
              [] name = "Service" ->
                    IF Len(f.service) >= ServiceMax THEN f
                    ELSE [f EXCEPT !.service = Append(f.service, key)]
              [] name = "Note" ->
                    IF Len(f.note) >= NoteMax THEN f
                    ELSE [f EXCEPT !.note = Append(f.note, key)]

\* BuildRule with the address compared to 'any' as typed
BuildRuleCaseSensitive(f) ==
    LET action    == actions[f.action + 1]
        direction == directions[f.direction + 1]
        protocol  == protocols[f.protocol + 1]
    IN  action \o <<" ">> \o direction
        \o (IF f.ip # <<"a","n","y">>
            THEN <<" ","f","r","o","m"," ">> \o f.ip ELSE <<>>)
        \o <<" ","t","o"," ","a","n","y"," ","p","o","r","t"," ">> \o f.port
        \o (IF Lower(protocol) # <<"a","n","y">>
            THEN <<" ","p","r","o","t","o"," ">> \o protocol ELSE <<>>)

\* the rule string built from the committed fields
BuildRule(f) ==
    LET action    == actions[f.action + 1]
        direction == directions[f.direction + 1]
        protocol  == protocols[f.protocol + 1]
    IN  action \o <<" ">> \o direction
        \o (IF Lower(f.ip) # <<"a","n","y">>
            THEN <<" ","f","r","o","m"," ">> \o f.ip ELSE <<>>)
        \o <<" ","t","o"," ","a","n","y"," ","p","o","r","t"," ">> \o f.port
        \o (IF Lower(protocol) # <<"a","n","y">>
            THEN <<" ","p","r","o","t","o"," ">> \o protocol ELSE <<>>)

None == [kind |-> "none"]

\* Commit without the check of the port
CommitUnchecked(f) ==
    [kind |-> "ok", rule |-> BuildRule(f), service |-> f.service,
     note |-> f.note]

\* what follows the key loop once Enter has ended it: None for a bad port,
\* else (rule, service, note)
Commit(f) ==
    IF ~IsDigitStr(f.port) THEN None
    ELSE [kind |-> "ok", rule |-> BuildRule(f), service |-> f.service,
          note |-> f.note]

\* the form's key loop over the keys the user presses, the last of them
\* Enter or Escape: the key that ended the loop and the fields then
RECURSIVE RunForm(_, _)
RunForm(f, keys) ==
    IF Head(keys) \in TermKeys THEN [key |-> Head(keys), fields |-> f]
    ELSE RunForm(FormKey(f, Head(keys)), Tail(keys))

\* FormReturn with Escape taken for Enter
FormReturnIgnoresEscape(exit) == Commit(exit.fields)

\* what the form returns: None on Escape, the commit's result on Enter
FormReturn(exit) ==
    IF exit.key = "ESC" THEN None ELSE Commit(exit.fields)

-----------------------------------------------------------------------------
(* The external tool, reached through _run_command *)

MaxRules == 2

\* the descriptions the tool's list is made of: as many as the list can hold
Descs == {DescOrder[i] : i \in 1..(IF MaxRules <= Len(DescOrder)
                                    THEN MaxRules ELSE Len(DescOrder))}

Call(cmd, arg, ok) == [cmd |-> cmd, arg |-> arg, ok |-> ok]

Range(s) == {s[i] : i \in 1..Len(s)}

\* "ufw delete <num>" can succeed only for a rule the tool has
CanDelete(e, num) == IsDigitStr(num) /\ StrToInt(num) \in 1..Len(e)

ExtRemove(e, i) == SubSeq(e, 1, i - 1) \o SubSeq(e, i + 1, Len(e))

\* "ufw insert <num> <rule>" can succeed only at a position of the list or
\* right after its end
CanInsert(e, num) == IsDigitStr(num) /\ StrToInt(num) \in 1..(Len(e) + 1)

ExtInsertAt(e, i, d) == SubSeq(e, 1, i - 1) \o <<d>> \o SubSeq(e, i, Len(e))

\* "ufw <rule>" appends the rule when the list has room for it
CanAppend(e) == Len(e) < MaxRules

\* the descriptions a new rule can get: the tool lists no rule twice
FreshDescs(e) == Descs \ Range(e)

\* the listing of "ufw status numbered", parsed: [ "[ 1]", text ] per rule,
\* the number kept here as it is after strip('[] ')
FetchedRules(e) == [i \in 1..Len(e) |-> <<IntToStr(i), e[i]>>]

\* GetFirewallRules with the listing kept when the status query fails
GetFirewallRulesKeepsList(e, ok, msg) ==
    IF ok
    THEN [rules |-> FetchedRules(e), ufw_status |-> "active",
          status_message |-> IF e = <<>> THEN "no_rules" ELSE msg]
    ELSE [rules |-> FetchedRules(e), ufw_status |-> "error",
          status_message |-> "fetch_error"]

\* _get_firewall_rules: ok is whether the status query succeeded, msg the
\* status message before the call
GetFirewallRules(e, ok, msg) ==
    IF ok
    THEN [rules |-> FetchedRules(e), ufw_status |-> "active",
          status_message |-> IF e = <<>> THEN "no_rules" ELSE msg]
    ELSE [rules |-> <<>>, ufw_status |-> "error",
          status_message |-> "fetch_error"]

\* the record of a successful fetch
Fetched(rs) == [any |-> TRUE, rules |-> rs]

Max(a, b) == IF a >= b THEN a ELSE b
Min(a, b) == IF a <= b THEN a ELSE b

-----------------------------------------------------------------------------
(* _delete_firewall_rule: the reindexing of the two stores *)

\* the loop body that builds new_data from data_dict
ReindexDict(d, deleted_num) ==
    LET keep == {k \in DOMAIN d : StrToInt(k) # deleted_num}
        NewKey(k) == IF StrToInt(k) > deleted_num
                     THEN IntToStr(StrToInt(k) - 1) ELSE k
    IN  [nk \in {NewKey(k) : k \in keep} |->
            d[CHOOSE k \in keep : NewKey(k) = nk]]

\* "if data_dict == self.notes" in the second pass of the loop, where
\* data_dict is the old service dict and self.notes is already the new
\* note dict: a comparison of contents
SecondPassIsNotes(old_services, new_notes) == old_services = new_notes

\* the loop over (notes, notes_file), (services, services_file)
ReindexStores(nts, svc, deleted_num) ==
    LET new_notes == ReindexDict(nts, deleted_num)
        new_svc   == ReindexDict(svc, deleted_num)
        alias     == SecondPassIsNotes(svc, new_notes)
    IN  [notes         |-> IF alias THEN new_svc ELSE new_notes,
         services      |-> IF alias THEN svc ELSE new_svc,
         notes_file    |-> SaveLines(new_notes),
         services_file |-> SaveLines(new_svc)]

\* Confirmed for every answer that begins with 'y'
ConfirmedByFirstLetter(answer) ==
    Strip(answer) # <<>> /\ Lower(Strip(answer))[1] = "y"

\* _confirm_action: getstr(..., 3), strip, lower, compare with 'y'
Confirmed(answer) == Lower(Strip(answer)) = <<"y">>

Answers == {<<"y">>, <<"Y">>, <<"n">>, <<>>, <<"y","e","s">>, <<" ","y">>}

-----------------------------------------------------------------------------
(* _add_or_edit_rule: the annotation updates *)

\* SetOrRemove that never removes
SetOnly(d, num, text) == IF text # <<>> THEN Put(d, num, text) ELSE d

\* edit: "if text: data_dict[num] = text / elif num in data_dict: del"
SetOrRemove(d, num, text) == IF text # <<>> THEN Put(d, num, text) ELSE Del(d, num)

\* AddedRules without the subtraction of the old snapshot
AddedRulesAll(old_rules, new_rules) == Range(new_rules)

\* add: the rules of the new snapshot that the old snapshot does not hold
AddedRules(old_rules, new_rules) == Range(new_rules) \ Range(old_rules)

-----------------------------------------------------------------------------
(* The keys typed into a form during a session *)

MaxKeys == 1

TypeChars == {"2", "w"}

FormKeys == NavKeys \cup TypeChars

RECURSIVE KeySeqs(_)
KeySeqs(n) ==
    IF n = 0 THEN {<<>>}
    ELSE KeySeqs(n - 1)
         \cup {Append(s, k) : s \in {x \in KeySeqs(n - 1) : Len(x) = n - 1},
                              k \in FormKeys}

Down(n) == [i \in 1..n |-> "DOWN"]

\* go to the port field and type p, to the service field and type s, to the
\* note field and type n
FillForm(p, s, n) == Down(3) \o p \o Down(2) \o s \o Down(1) \o n

Filled == {FillForm(p, s, n) : p \in {<<>>, <<"2">>, <<"w">>},
                               s \in {<<>>, <<"w">>},
                               n \in {<<>>, <<"w">>}}

\* go to the service field, or the note field, or both, and erase its last
\* character
Erased == {Down(5) \o <<"BKSP">>, Down(6) \o <<"BKSP">>,
           Down(5) \o <<"BKSP", "DOWN", "BKSP">>}

FormInputs == {k \o <<t>> : k \in KeySeqs(MaxKeys) \cup Filled \cup Erased,
                            t \in TermKeys}

\* the annotation texts of a session
SessionTexts == {<<>>, <<"w">>}

\* what the user did in a form: cancelled it, committed it with a port that
\* is empty or not all digits, or committed it with a port of digits
UserDid(exit) ==
    IF exit.key = "ESC" THEN "cancel"
    ELSE IF exit.fields.port # <<>>
            /\ \A i \in 1..Len(exit.fields.port) : exit.fields.port[i] \in Digits
         THEN "commit" ELSE "badport"

\* what the form that starts as f returns for the keys of FormInputs, each
\* with what the user did, the annotation texts among SessionTexts
FormResults(f) ==
    {x \in {[did |-> UserDid(RunForm(f, keys)),
             result |-> FormReturn(RunForm(f, keys))] : keys \in FormInputs} :
        x.result.kind = "ok" =>
            x.result.service \in SessionTexts /\ x.result.note \in SessionTexts}

\* the results of the add form: existing_rule is None, the stores are not read
AddFormResults == FormResults(DefaultFields)

\* the results of the edit form, by the rule's description and the service
\* and note the stores hold for it
EditFormResults[d \in Descs, s \in SessionTexts, n \in SessionTexts] ==
    FormResults(ParsedFields(<<<<"1">>, d>>, (<<"1">> :> s), (<<"1">> :> n)))

\* the keys pressed in the reset dialog: it reads keys until Enter or Escape
PanicInputs == {<<t>> : t \in TermKeys} \cup {<<"x", t>> : t \in TermKeys}

RECURSIVE RunPanic(_)
RunPanic(keys) ==
    IF Head(keys) \in TermKeys THEN Head(keys) ELSE RunPanic(Tail(keys))

-----------------------------------------------------------------------------
(* The session: __init__, then _app_loop *)

Op(op, outcome, calls) ==
    [op |-> op, outcome |-> outcome, calls |-> calls, texts |-> <<>>,
     answer |-> <<>>]

StatusCall(ok) == Call("status", <<>>, ok)

\* a handler that went on to annotate: the service and note texts committed
OpT(op, outcome, calls, service, note) ==
    [op |-> op, outcome |-> outcome, calls |-> calls,
     texts |-> <<service, note>>, answer |-> <<>>]

\* a handler that asked for a confirmation: what the user typed
OpA(op, outcome, calls, answer) ==
    [op |-> op, outcome |-> outcome, calls |-> calls, texts |-> <<>>,
     answer |-> answer]

InitTexts == {<<"w">>}

\* the stores a previous session can have left for the rule list e
StoresFor(e) ==
    UNION {[ks -> InitTexts] : ks \in SUBSET {IntToStr(i) : i \in 1..Len(e)}}

\* rule lists without a repeated description
RuleLists ==
    {e \in UNION {[1..n -> Descs] : n \in 0..MaxRules} :
        \A i, j \in 1..Len(e) : e[i] = e[j] => i = j}

NoFields == [action |-> 0]
NoResult == None

Init ==
    /\ ext \in RuleLists
    /\ \E n \in StoresFor(ext), s \in StoresFor(ext) :
          /\ notes_file = SaveLines(n)
          /\ services_file = SaveLines(s)
    /\ notes = LoadLines(notes_file)
    /\ services = LoadLines(services_file)
    /\ rules = <<>>
    /\ ufw_status = "inactive"
    /\ selected_index = 0
    /\ status_message = "welcome"
    /\ pc = "start"
    /\ last = Op("init", "none", <<>>)
    /\ lastFetch = [any |-> FALSE, rules |-> <<>>]
    /\ form_in = NoFields
    /\ form_out = NoResult
    /\ saved_from = EmptyDict

\* the first _get_firewall_rules of _app_loop
Startup ==
    /\ pc = "start"
    /\ \E ok \in BOOLEAN :
          LET f == GetFirewallRules(ext, ok, status_message)
          IN  /\ rules' = f.rules
              /\ ufw_status' = f.ufw_status
              /\ status_message' = f.status_message
              /\ lastFetch' = IF ok THEN Fetched(f.rules) ELSE lastFetch
              /\ last' = Op("startup", "none", <<StatusCall(ok)>>)
    /\ pc' = "main"
    /\ UNCHANGED <<ext, selected_index, storeVars, formVars, saved_from>>

KeyUp ==
    /\ pc = "main"
    /\ selected_index' = Max(0, selected_index - 1)
    /\ status_message' = ""
    /\ last' = Op("up", "none", <<>>)
    /\ UNCHANGED <<ext, rules, ufw_status, pc, lastFetch, storeVars,
                   formVars, saved_from>>

KeyDown ==
    /\ pc = "main"
    /\ selected_index' = IF rules # <<>>
                         THEN Min(Len(rules) - 1, selected_index + 1)
                         ELSE selected_index
    /\ status_message' = ""
    /\ last' = Op("down", "none", <<>>)
    /\ UNCHANGED <<ext, rules, ufw_status, pc, lastFetch, storeVars,
                   formVars, saved_from>>

\* _reload_firewall
KeyReload ==
    /\ pc = "main"
    /\ \E ok \in BOOLEAN, okf \in BOOLEAN :
          LET f == GetFirewallRules(ext, okf,
                                    IF ok THEN "reloaded" ELSE "err_reload")
          IN  /\ rules' = f.rules
              /\ ufw_status' = f.ufw_status
              /\ status_message' = f.status_message
              /\ lastFetch' = IF okf THEN Fetched(f.rules) ELSE lastFetch
              /\ last' = Op("reload", "none",
                            <<Call("reload", <<>>, ok), StatusCall(okf)>>)
    /\ UNCHANGED <<ext, selected_index, pc, storeVars, formVars, saved_from>>

\* SelectedRule with the selection ignored
SelectedRuleFirst(rs, sel) == rs[1]

\* self.rules[self.selected_index]
SelectedRule(rs, sel) == rs[sel + 1]

\* _delete_firewall_rule
KeyDelete ==
    /\ pc = "main"
    /\ IF rules = <<>> \/ selected_index >= Len(rules)
       THEN /\ status_message' = "no_rule_delete"
            /\ last' = Op("delete", "none", <<>>)
            /\ UNCHANGED <<ext, rules, ufw_status, selected_index, lastFetch,
                           storeVars>>
       ELSE \E answer \in Answers :
            \E ok \in {o \in BOOLEAN : Confirmed(answer) \/ o} :
            \E okf \in {o \in BOOLEAN : (Confirmed(answer) /\ ok) \/ o} :
            LET yes == Confirmed(answer)
                rule_num_str == SelectedRule(rules, selected_index)[1]
                deleted_num  == StrToInt(rule_num_str)
                e2 == ExtRemove(ext, deleted_num)
                st == ReindexStores(notes, services, deleted_num)
                f  == GetFirewallRules(e2, okf, "deleted")
            IN  IF ~IsDigitStr(rule_num_str)
                THEN /\ status_message' = "not_deletable"
                     /\ last' = Op("delete", "none", <<>>)
                     /\ UNCHANGED <<ext, rules, ufw_status, selected_index,
                                    lastFetch, storeVars>>
                ELSE IF ~yes
                THEN /\ status_message' = ""
                     /\ last' = OpA("delete", "no", <<>>, answer)
                     /\ UNCHANGED <<ext, rules, ufw_status, selected_index,
                                    lastFetch, storeVars>>
                ELSE IF ok /\ CanDelete(ext, rule_num_str)
                THEN /\ ext' = e2
                     /\ notes' = st.notes
                     /\ services' = st.services
                     /\ notes_file' = st.notes_file
                     /\ services_file' = st.services_file
                     /\ selected_index' = Max(0, selected_index - 1)
                     /\ rules' = f.rules
                     /\ ufw_status' = f.ufw_status
                     /\ status_message' = f.status_message
                     /\ lastFetch' = IF okf THEN Fetched(f.rules) ELSE lastFetch
                     /\ last' = OpA("delete", "yes",
                                    <<Call("delete", rule_num_str, TRUE),
                                      StatusCall(okf)>>, answer)
                ELSE /\ status_message' = "err_delete"
                     /\ last' = OpA("delete", "yes",
                                    <<Call("delete", rule_num_str, FALSE)>>,
                                    answer)
                     /\ UNCHANGED <<ext, rules, ufw_status, selected_index,
                                    lastFetch, storeVars>>
    /\ UNCHANGED <<pc, formVars, saved_from>>

\* the form returned None: nothing follows "if result:"
NoResultStep(op, did) ==
    /\ status_message' = IF did = "cancel" THEN "" ELSE "bad_port"
    /\ last' = Op(op, did, <<>>)
    /\ UNCHANGED <<ext, rules, ufw_status, selected_index, lastFetch, pc,
                   storeVars>>

\* FailedStep of an edit with the insert issued although the delete failed
FailedStepInsertsAnyway(op, e2, calls) ==
    /\ ext' = e2
    /\ status_message' = "err_apply"
    /\ last' = Op(op, "commit",
                  IF op = "edit" /\ Len(calls) = 1
                  THEN Append(calls, Call("insert", calls[1].arg, FALSE))
                  ELSE calls)
    /\ UNCHANGED <<rules, ufw_status, selected_index, lastFetch, pc,
                   storeVars>>

\* FailedStep with the failed command issued a second time
FailedStepRetries(op, e2, calls) ==
    /\ ext' = e2
    /\ status_message' = "err_apply"
    /\ last' = Op(op, "commit", calls \o calls)
    /\ UNCHANGED <<rules, ufw_status, selected_index, lastFetch, pc,
                   storeVars>>

\* the external command raised CalledProcessError: the except branch
FailedStep(op, e2, calls) ==
    /\ ext' = e2
    /\ status_message' = "err_apply"
    /\ last' = Op(op, "commit", calls)
    /\ UNCHANGED <<rules, ufw_status, selected_index, lastFetch, pc,
                   storeVars>>

\* _add_or_edit_rule(is_edit=False)
KeyAdd ==
    /\ pc = "main"
    /\ \E x \in AddFormResults :
           LET result == x.result IN
           IF result.kind # "ok" THEN NoResultStep("add", x.did)
           ELSE \E how \in {"fail", "skip", "append"} :
                \E d \in {dd \in Descs : how = "append" \/ dd = DescOrder[1]},
                   okf1 \in {o \in BOOLEAN : how # "fail" \/ o},
                   okf2 \in {o \in BOOLEAN : how # "fail" \/ o} :
                /\ how = "append" => CanAppend(ext) /\ d \in FreshDescs(ext)
                /\ how = "skip" => ext # <<>>
                /\ IF how = "fail"
                   THEN FailedStep("add", ext, <<Call("add", <<>>, FALSE)>>)
                   ELSE LET e2 == IF how = "append" THEN Append(ext, d) ELSE ext
                            f1 == GetFirewallRules(e2, okf1, status_message)
                            added_rules == AddedRules(rules, f1.rules)
                            f2 == GetFirewallRules(e2, okf2, "applied")
                        IN  /\ ext' = e2
                            /\ IF added_rules = {}
                               THEN UNCHANGED storeVars
                               ELSE \E r \in added_rules :
                                    LET new_rule_num == r[1]
                                        svc == IF result.service # <<>>
                                               THEN Put(services, new_rule_num,
                                                        result.service)
                                               ELSE services
                                        nts == IF result.note # <<>>
                                               THEN Put(notes, new_rule_num,
                                                        result.note)
                                               ELSE notes
                                    IN  /\ services' = svc
                                        /\ notes' = nts
                                        /\ services_file' =
                                              IF result.service # <<>>
                                              THEN SaveLines(svc)
                                              ELSE services_file
                                        /\ notes_file' =
                                              IF result.note # <<>>
                                              THEN SaveLines(nts)
                                              ELSE notes_file
                            /\ rules' = f2.rules
                            /\ ufw_status' = f2.ufw_status
                            /\ status_message' = f2.status_message
                            /\ lastFetch' = IF okf1 \/ okf2 THEN Fetched(FetchedRules(e2))
                                            ELSE lastFetch
                            /\ last' = OpT("add", x.did,
                                           <<Call("add", <<>>, TRUE),
                                             StatusCall(okf1),
                                             StatusCall(okf2)>>,
                                           result.service, result.note)
                            /\ UNCHANGED <<selected_index, pc>>
    /\ UNCHANGED <<formVars, saved_from>>

\* _add_or_edit_rule(is_edit=True)
KeyEdit ==
    /\ pc = "main"
    /\ IF rules = <<>> \/ selected_index >= Len(rules)
       THEN /\ status_message' = "no_rule_edit"
            /\ last' = Op("edit", "none", <<>>)
            /\ UNCHANGED <<ext, rules, ufw_status, selected_index, lastFetch,
                           pc, storeVars>>
       ELSE LET rule_to_edit == SelectedRule(rules, selected_index)
                old_rule_num == rule_to_edit[1]
                form == FormInit(rule_to_edit, services, notes)
            IN  IF form.crashed
                THEN /\ pc' = "crashed"
                     /\ last' = Op("edit", "none", <<>>)
                     /\ UNCHANGED <<ext, rules, ufw_status, selected_index,
                                    lastFetch, status_message, storeVars>>
                ELSE \E x \in EditFormResults[rule_to_edit[2],
                                   Get(services, old_rule_num),
                                   Get(notes, old_rule_num)] :
                    LET result == x.result IN
                    IF result.kind # "ok" THEN NoResultStep("edit", x.did)
                    ELSE \E ok1 \in BOOLEAN :
                         \E ok2 \in {o \in BOOLEAN : ok1 \/ o} :
                         \E d \in {dd \in Descs : (ok1 /\ ok2) \/ dd = DescOrder[1]},
                            okf \in {o \in BOOLEAN : (ok1 /\ ok2) \/ o} :
                    LET del_ok == ok1 /\ CanDelete(ext, old_rule_num)
                        e1 == IF del_ok
                              THEN ExtRemove(ext, StrToInt(old_rule_num))
                              ELSE ext
                        ins_ok == del_ok /\ ok2 /\ CanInsert(e1, old_rule_num)
                                  /\ d \in FreshDescs(e1)
                        e2 == IF ins_ok
                              THEN ExtInsertAt(e1, StrToInt(old_rule_num), d)
                              ELSE e1
                        svc == SetOrRemove(services, old_rule_num,
                                           result.service)
                        nts == SetOrRemove(notes, old_rule_num, result.note)
                        f == GetFirewallRules(e2, okf, "applied")
                    IN  IF ~del_ok
                        THEN FailedStep("edit", e1,
                                 <<Call("delete", old_rule_num, FALSE)>>)
                        ELSE IF ~ins_ok
                        THEN FailedStep("edit", e1,
                                 <<Call("delete", old_rule_num, TRUE),
                                   Call("insert", old_rule_num, FALSE)>>)
                        ELSE /\ ext' = e2
                             /\ services' = svc
                             /\ notes' = nts
                             /\ services_file' = SaveLines(svc)
                             /\ notes_file' = SaveLines(nts)
                             /\ rules' = f.rules
                             /\ ufw_status' = f.ufw_status
                             /\ status_message' = f.status_message
                             /\ lastFetch' = IF okf THEN Fetched(f.rules) ELSE lastFetch
                             /\ last' = OpT("edit", x.did,
                                            <<Call("delete", old_rule_num, TRUE),
                                              Call("insert", old_rule_num, TRUE),
                                              StatusCall(okf)>>,
                                            result.service, result.note)
                             /\ UNCHANGED <<selected_index, pc>>
    /\ UNCHANGED <<formVars, saved_from>>

\* PanicConfirms with every key that ends the dialog confirming
PanicConfirmsAnyEnd(key) == key \in TermKeys

\* the key that ends the reset dialog runs "ufw reset"
PanicConfirms(key) == key = "ENTER"

\* _panic_mode
KeyPanic ==
    /\ pc = "main"
    /\ \E key \in {RunPanic(keys) : keys \in PanicInputs} :
       \E ok \in {o \in BOOLEAN : PanicConfirms(key) \/ o} :
       \E okf \in {o \in BOOLEAN : (PanicConfirms(key) /\ ok) \/ o} :
       LET f == GetFirewallRules(<<>>, okf, "reset")
       IN  IF PanicConfirms(key)
           THEN IF ok
                THEN /\ ext' = <<>>
                     /\ rules' = f.rules
                     /\ ufw_status' = f.ufw_status
                     /\ status_message' = f.status_message
                     /\ lastFetch' = IF okf THEN Fetched(f.rules) ELSE lastFetch
                     /\ last' = Op("panic", key, <<Call("reset", <<>>, TRUE),
                                                   StatusCall(okf)>>)
                ELSE /\ status_message' = "err_reset"
                     /\ last' = Op("panic", key, <<Call("reset", <<>>, FALSE)>>)
                     /\ UNCHANGED <<ext, rules, ufw_status, lastFetch>>
           ELSE /\ status_message' = "aborted"
                /\ last' = Op("panic", key, <<>>)
                /\ UNCHANGED <<ext, rules, ufw_status, lastFetch>>
    /\ UNCHANGED <<selected_index, pc, storeVars, formVars, saved_from>>

\* getch timed out (key == -1): refresh the rules and reload both files
Idle ==
    /\ pc = "main"
    /\ \E okf \in BOOLEAN :
          LET f == GetFirewallRules(ext, okf, "")
          IN  /\ rules' = f.rules
              /\ ufw_status' = f.ufw_status
              /\ status_message' = f.status_message
              /\ lastFetch' = IF okf THEN Fetched(f.rules) ELSE lastFetch
              /\ last' = Op("idle", "none", <<StatusCall(okf)>>)
    /\ notes' = LoadLines(notes_file)
    /\ services' = LoadLines(services_file)
    /\ UNCHANGED <<ext, selected_index, pc, notes_file, services_file,
                   formVars, saved_from>>

\* 'q' or 'Q'
Quit ==
    /\ pc = "main"
    /\ pc' = "done"
    /\ last' = Op("quit", "none", <<>>)
    /\ status_message' = ""
    /\ UNCHANGED <<ext, rules, ufw_status, selected_index,
                   lastFetch, storeVars, formVars, saved_from>>

Next ==
    \/ Startup
    \/ KeyUp
    \/ KeyDown
    \/ KeyReload
    \/ KeyDelete
    \/ KeyAdd
    \/ KeyEdit
    \/ KeyPanic
    \/ Idle
    \/ Quit

Spec == Init /\ [][Next]_vars

-----------------------------------------------------------------------------
(* The claims about the session *)

Waiting == pc = "main"

Cmds(l) == {l.calls[i].cmd : i \in 1..Len(l.calls)}

\* the entry of a store at a key: <<>> when it has none, <<text>> otherwise
Entry(d, k) == IF k \in DOMAIN d THEN <<d[k]>> ELSE <<>>

KeysOf(a, b) == DOMAIN a \cup DOMAIN b

\* new holds no entry for the old d, every old entry above d one lower with
\* its text, every old entry below d as it was, and nothing else
IsReindexed(old, new, d) ==
    /\ \A k \in DOMAIN old :
          /\ StrToInt(k) > d => Entry(new, IntToStr(StrToInt(k) - 1)) = <<old[k]>>
          /\ StrToInt(k) < d => Entry(new, k) = <<old[k]>>
    /\ \A nk \in DOMAIN new :
          \E k \in DOMAIN old :
              \/ StrToInt(k) > d /\ nk = IntToStr(StrToInt(k) - 1)
              \/ StrToInt(k) < d /\ nk = k

\* the step is a confirmed delete whose external command succeeded
DeleteSucceeded ==
    /\ last'.op = "delete"
    /\ last'.calls # <<>>
    /\ last'.calls[1] = Call("delete", rules[selected_index + 1][1], TRUE)

\* C1: after a confirmed and successful delete of rule d each in-memory store
\* is the reindexed image of its own old contents, whatever the two stores
\* held (the claim as stated; the code breaks it)
C1_ReindexOnDelete ==
    [][DeleteSucceeded =>
          LET d == StrToInt(rules[selected_index + 1][1])
          IN  /\ IsReindexed(notes, notes', d)
              /\ IsReindexed(services, services', d)]_vars

\* the step is an edit whose form was committed with a valid port
EditCommitted == last'.op = "edit" /\ last'.outcome = "commit"

\* C2: after an edit of rule k, whichever of its external commands succeeded
\* or failed, every other rule of the tool's list is at the index it had and
\* the service and note stored for every other index are as before (the
\* claim as stated; the code breaks it)
C2_EditKeepsOtherRules ==
    [][EditCommitted =>
          LET k == StrToInt(rules[selected_index + 1][1])
          IN  /\ \A i \in 1..Len(ext) :
                    i # k => i <= Len(ext') /\ ext'[i] = ext[i]
              /\ \A key \in KeysOf(services, services') \cup KeysOf(notes, notes') :
                    key # IntToStr(k) =>
                        /\ Entry(services', key) = Entry(services, key)
                        /\ Entry(notes', key) = Entry(notes, key)]_vars

\* the step is an add whose external command appended a rule and whose two
\* fetches succeeded
AddAppended ==
    /\ last'.op = "add"
    /\ last'.calls = <<Call("add", <<>>, TRUE), StatusCall(TRUE), StatusCall(TRUE)>>
    /\ Len(ext') = Len(ext) + 1

\* the store after text was attached to the rule number num, and to nothing
\* else; an empty text attaches nothing
Attached(old, num, text) == IF text # <<>> THEN Put(old, num, text) ELSE old

\* C3: after a successful append-style add the committed service and note
\* texts are attached to the index of the new rule and to no other, for
\* every in-memory snapshot the add can start from (the claim as stated; the
\* code breaks it)
C3_AddAnnotatesNewRule ==
    [][AddAppended =>
          LET new_num == IntToStr(Len(ext'))
          IN  /\ services' = Attached(services, new_num, last'.texts[1])
              /\ notes' = Attached(notes, new_num, last'.texts[2])]_vars

RuleNums(rs) == {rs[i][1] : i \in 1..Len(rs)}

\* C4: while the loop waits for input, and at quit, every index annotated in
\* a store or a file is the index of a rule of the last successful fetch
\* (the claim as stated; the code breaks it)
C4_AnnotationsMatchFetch ==
    (pc \in {"main", "done"} /\ lastFetch.any) =>
        (DOMAIN notes \cup DOMAIN services
           \cup DOMAIN LoadLines(notes_file) \cup DOMAIN LoadLines(services_file))
        \subseteq RuleNums(lastFetch.rules)

\* C5: after every completed add, edit or delete each file holds exactly the
\* entries of its in-memory store, ascending by index (the claim as stated;
\* the code breaks it)
C5_FilesEqualStores ==
    (pc = "main" /\ last.op \in {"add", "edit", "delete"}) =>
        /\ notes_file = SaveLines(notes)
        /\ services_file = SaveLines(services)

\* C8: when a form is committed with a port that is empty or not all digits,
\* no external command is invoked and neither store nor file changes
C8_BadPortIssuesNothing ==
    [][(last'.op \in {"add", "edit"} /\ last'.outcome = "badport") =>
          /\ last'.calls = <<>>
          /\ UNCHANGED <<ext, notes, services, notes_file, services_file>>]_vars

C8_Witness ==
    /\ pc = "main"
    /\ last.op = "edit"
    /\ last.outcome = "badport"
    /\ rules # <<>>

\* C9: when a form is cancelled with Escape, no external command is invoked
\* and the rule list, both stores and both files are as before the form
C9_CancelChangesNothing ==
    [][(last'.op \in {"add", "edit"} /\ last'.outcome = "cancel") =>
          /\ last'.calls = <<>>
          /\ UNCHANGED <<ext, rules, notes, services, notes_file,
                         services_file>>]_vars

C9_Witness ==
    /\ pc = "main"
    /\ last.op = "edit"
    /\ last.outcome = "cancel"
    /\ DOMAIN notes # {}
    /\ rules # <<>>

\* C10: the reset command is invoked only by the reset dialog ended with
\* Enter; a dialog ended with Escape invokes nothing and leaves the tool's
\* list, the rule list, both stores and both files as they were
C10_ResetNeedsConfirm ==
    [][/\ "reset" \in Cmds(last') => last'.op = "panic" /\ last'.outcome = "ENTER"
       /\ (last'.op = "panic" /\ last'.outcome = "ESC") =>
             /\ last'.calls = <<>>
             /\ UNCHANGED <<ext, rules, notes, services, notes_file,
                            services_file>>
       /\ last'.op # "panic" => (ext' = <<>> => ext = <<>> \/ Len(ext) = 1)]_vars

C10_Witness ==
    /\ pc = "main"
    /\ last.op = "panic"
    /\ last.outcome = "ESC"
    /\ rules # <<>>
    /\ DOMAIN services # {}

-----------------------------------------------------------------------------
(* Save then load of one store *)

\* texts a form field can hold
RTTexts == {<<"w">>, <<" ", "w">>, <<"w", " ">>, <<" ">>, <<"w", ":", "w">>,
            <<"w", " ", "w">>}

RTKeys == {<<"1">>, <<"2">>, <<"1", "0">>}

RTStores == UNION {[ks -> RTTexts] : ks \in SUBSET RTKeys}

InitRT ==
    /\ services \in RTStores
    /\ saved_from = services
    /\ services_file = <<>>
    /\ notes = EmptyDict
    /\ notes_file = <<>>
    /\ pc = "rt_save"
    /\ ext = <<>>
    /\ rules = <<>>
    /\ ufw_status = "inactive"
    /\ selected_index = 0
    /\ status_message = ""
    /\ last = Op("init", "none", <<>>)
    /\ lastFetch = [any |-> FALSE, rules |-> <<>>]
    /\ form_in = NoFields
    /\ form_out = NoResult

\* _save_notes_or_services(self.services_file, self.services)
RTSave ==
    /\ pc = "rt_save"
    /\ services_file' = SaveLines(services)
    /\ pc' = "rt_load"
    /\ UNCHANGED <<ext, rules, ufw_status, selected_index, status_message,
                   last, lastFetch, notes, services, notes_file, formVars,
                   saved_from>>

\* _setup_and_load_files
RTLoad ==
    /\ pc = "rt_load"
    /\ notes' = LoadLines(notes_file)
    /\ services' = LoadLines(services_file)
    /\ pc' = "rt_done"
    /\ UNCHANGED <<ext, rules, ufw_status, selected_index, status_message,
                   last, lastFetch, notes_file, services_file, formVars,
                   saved_from>>

NextRT == RTSave \/ RTLoad

SpecRT == InitRT /\ [][NextRT]_vars

\* C6: save followed by load yields the saved index-to-text mapping, for
\* every text a form can produce (the claim as stated; the code breaks it)
C6_RoundTrip == pc = "rt_done" => services = saved_from

-----------------------------------------------------------------------------
(* The command built when a form is committed *)

CmdPorts == {<<"2">>, <<"2", "2">>, <<"8", "0">>, <<>>, <<"w">>, <<"2", "w">>}

CmdIps == {<<"a","n","y">>, <<"A","N","Y">>, <<"A","n","y">>, <<>>, <<"1">>,
           <<"a","n">>, <<"1","0",".","0",".","0",".","5">>}

InitCmd ==
    /\ \E a \in 0..(Len(actions) - 1), d \in 0..(Len(directions) - 1),
          p \in 0..(Len(protocols) - 1), port \in CmdPorts, ip \in CmdIps :
          form_in = [DefaultFields EXCEPT !.action = a, !.direction = d,
                                          !.protocol = p, !.port = port,
                                          !.ip = ip]
    /\ form_out = NoResult
    /\ pc = "form"
    /\ ext = <<>>
    /\ rules = <<>>
    /\ ufw_status = "inactive"
    /\ selected_index = 0
    /\ status_message = ""
    /\ last = Op("init", "none", <<>>)
    /\ lastFetch = [any |-> FALSE, rules |-> <<>>]
    /\ notes = EmptyDict
    /\ services = EmptyDict
    /\ notes_file = <<>>
    /\ services_file = <<>>
    /\ saved_from = EmptyDict

\* Enter or Escape is pressed in the form that holds form_in
FormEnd(key) ==
    /\ pc = "form"
    /\ form_out' = FormReturn([key |-> key, fields |-> form_in])
    /\ pc' = IF key = "ESC" THEN "cancelled" ELSE "committed"
    /\ UNCHANGED <<ext, rules, ufw_status, selected_index, status_message,
                   last, lastFetch, storeVars, form_in, saved_from>>

FormEnter == FormEnd("ENTER")

FormEscape == FormEnd("ESC")

NextCmd == FormEnter \/ FormEscape

SpecCmd == InitCmd /\ [][NextCmd]_vars

\* the command the claim describes, given when the from clause is present
CommandText(f, with_from) ==
    actions[f.action + 1] \o <<" ">> \o directions[f.direction + 1]
    \o (IF with_from THEN <<" ","f","r","o","m"," ">> \o f.ip ELSE <<>>)
    \o <<" ","t","o"," ","a","n","y"," ","p","o","r","t"," ">> \o f.port
    \o (IF protocols[f.protocol + 1] # <<"a","n","y">>
        THEN <<" ","p","r","o","t","o"," ">> \o protocols[f.protocol + 1]
        ELSE <<>>)

CommittedDigits == pc = "committed" /\ IsDigitStr(form_in.port)

\* C7 as stated: the from clause is present exactly when the remote address
\* is not 'any'
C7_CommandAsStated ==
    CommittedDigits =>
        /\ form_out.kind = "ok"
        /\ form_out.rule = CommandText(form_in, form_in.ip # <<"a","n","y">>)

\* C7, amended: for an all-digit non-empty port the command is
\* '<action> <direction>', then ' from <remoteAddress>' exactly when the
\* remote address, compared without regard to case, is not 'any', then
\* ' to any port <port>', then ' proto <protocol>' exactly when the protocol
\* is not 'any'
C7_CommandBuilder ==
    CommittedDigits =>
        /\ form_out.kind = "ok"
        /\ form_out.rule =
              CommandText(form_in, Lower(form_in.ip) # <<"a","n","y">>)

C7_Witness ==
    /\ CommittedDigits
    /\ form_in.ip = <<"A","N","Y">>
    /\ form_in.protocol = 2
    /\ form_out.kind = "ok"

-----------------------------------------------------------------------------
(* Failures of the external tool *)

\* the handler's last external invocation was the status query
EndsWithFetch(l) ==
    l.calls # <<>> /\ l.calls[Len(l.calls)].cmd = "status"

FetchFailed(l) == EndsWithFetch(l) /\ ~l.calls[Len(l.calls)].ok

FetchSucceeded(l) == EndsWithFetch(l) /\ l.calls[Len(l.calls)].ok

\* C11: when the status query of a handler fails, the status is 'error', the
\* rule list is empty, a status message is set and the loop waits for input
\* again, and where the handler is the fetch alone (startup, reload, reset)
\* both stores and both files are as before; a later fetch that succeeds
\* sets the status and the rule list from the tool's listing
C11_FetchFailureRecoverable ==
    [][/\ FetchFailed(last') =>
             /\ ufw_status' = "error"
             /\ rules' = <<>>
             /\ status_message' = "fetch_error"
             /\ pc' = "main"
             /\ last'.op \in {"startup", "reload", "panic"} =>
                   UNCHANGED storeVars
       /\ FetchSucceeded(last') =>
             /\ ufw_status' = "active"
             /\ rules' = FetchedRules(ext')
             /\ pc' = "main"]_vars

C11_Witness ==
    /\ pc = "main"
    /\ last.op = "reload"
    /\ FetchFailed(last)
    /\ ufw_status = "error"
    /\ rules = <<>>
    /\ ext # <<>>
    /\ DOMAIN notes # {}

\* the handler's first external invocation was a mutation that failed: a
\* delete (of the delete key or the first step of an edit), an add, a reset
MutationFailed(l) ==
    /\ l.calls # <<>>
    /\ l.calls[1].cmd \in {"delete", "add", "reset"}
    /\ ~l.calls[1].ok

\* C12: when the external invocation of a delete, an add, the first step of
\* an edit or a reset fails, both stores, both files, the selection and the
\* tool's list are as before, the status message is the error of that
\* operation, the failed command is the only invocation of the handler, and
\* the loop waits for input again
C12_FailedMutationChangesNothing ==
    [][MutationFailed(last') =>
          /\ UNCHANGED <<notes, services, notes_file, services_file,
                         selected_index, ext>>
          /\ Len(last'.calls) = 1
          /\ status_message' =
                (CASE last'.op = "delete" -> "err_delete"
                   [] last'.op = "panic"  -> "err_reset"
                   [] OTHER               -> "err_apply")
          /\ pc' = "main"]_vars

C12_Witness ==
    /\ pc = "main"
    /\ last.op = "edit"
    /\ MutationFailed(last)
    /\ DOMAIN notes # {}
    /\ DOMAIN services # {}
    /\ selected_index = 1

-----------------------------------------------------------------------------
(* Rule descriptions that do not parse: the edit form and the rule table *)

\* the descriptions a fetch can return: group(2) of r'(\[\s*\d+\])\s+(.*)'
\* is any text
ParseDescs == {"A", "B", "C", "D", "E", "F"}

\* fetched rule lists of one or two rules
ParseRuleLists ==
    {FetchedRules(e) : e \in {x \in [1..1 -> ParseDescs] \cup [1..2 -> ParseDescs] :
                                 \A i, j \in 1..Len(x) : x[i] = x[j] => i = j}}

ParseStores == UNION {[ks -> InitTexts] : ks \in SUBSET {<<"1">>, <<"2">>}}

InitParse ==
    /\ rules \in ParseRuleLists
    /\ selected_index \in 0..1
    /\ selected_index < Len(rules)
    /\ notes \in ParseStores
    /\ services \in ParseStores
    /\ notes_file = SaveLines(notes)
    /\ services_file = SaveLines(services)
    /\ ext = [i \in 1..Len(rules) |-> rules[i][2]]
    /\ ufw_status = "active"
    /\ status_message = ""
    /\ pc = "main"
    /\ last = Op("startup", "none", <<StatusCall(TRUE)>>)
    /\ lastFetch = Fetched(rules)
    /\ form_in = NoFields
    /\ form_out = NoResult
    /\ saved_from = EmptyDict

UpperActions == << <<"A","L","L","O","W">>, <<"D","E","N","Y">>,
                   <<"R","E","J","E","C","T">>, <<"L","I","M","I","T">> >>
UpperDirections == << <<"I","N">>, <<"O","U","T">> >>

\* one row of the rule table: from_full.split()[0] on an empty from_full
\* raises IndexError
RowRaises(rule) ==
    LET m == AfterPhrase(DescWords(rule[2]), UpperActions, UpperDirections)
    IN  m.found /\ m.rest = <<>>

\* _draw_main_window, every rule being in the visible part of the list
DrawMainWindow ==
    /\ pc = "main"
    /\ pc' = IF ufw_status # "error"
                /\ \E i \in 1..Len(rules) : RowRaises(rules[i])
             THEN "crashed" ELSE "main"
    /\ last' = Op("draw", "none", <<>>)
    /\ UNCHANGED <<ext, rules, ufw_status, selected_index, status_message,
                   lastFetch, storeVars, formVars, saved_from>>

\* Enter on the selected rule: _get_rule_input_from_form up to its key loop
OpenEditForm ==
    /\ pc = "main"
    /\ LET form == FormInit(rules[selected_index + 1], services, notes)
       IN  /\ pc' = IF form.crashed THEN "crashed" ELSE "form"
           /\ form_in' = IF form.crashed THEN form_in ELSE form
    /\ last' = Op("edit", "none", <<>>)
    /\ UNCHANGED <<ext, rules, ufw_status, selected_index, status_message,
                   lastFetch, storeVars, form_out, saved_from>>

NextParse == DrawMainWindow \/ OpenEditForm

SpecParse == InitParse /\ [][NextParse]_vars

\* C13: for every rule description a fetch can return, opening the edit
\* form and drawing the rule table end without an uncaught error, and a
\* form opened on a description without an action token holds the default
\* action and address (the claim as stated; the code breaks it)
C13_NoFatalError ==
    /\ pc # "crashed"
    /\ (pc = "form" /\ rules[selected_index + 1][2] = "E") =>
          /\ form_in.action = DefaultFields.action
          /\ form_in.ip = DefaultFields.ip

\* the i-th invocation of the handler was a reload or a mutation that failed
InvocationFailed(l, i) ==
    /\ l.calls[i].cmd \in {"reload", "delete", "add", "insert", "reset"}
    /\ ~l.calls[i].ok

\* C14: in every handler, a failed reload, delete, add, insert or reset is
\* followed by a status query before the loop waits for input again (the
\* claim as stated; the code breaks it)
C14_RefetchAfterFailure ==
    [][\A i \in 1..Len(last'.calls) :
          InvocationFailed(last', i) =>
              \E j \in (i + 1)..Len(last'.calls) : last'.calls[j].cmd = "status"]_vars

-----------------------------------------------------------------------------
(* The form's states *)

\* C15: a form whose port is empty or not all digits does not reach a
\* terminal state by Enter: it ends only by Escape (the claim as stated; the
\* code breaks it)
C15_BadPortKeepsFormOpen ==
    pc = "committed" => IsDigitStr(form_in.port)

\* C16: the protocol field of a form opened on an existing rule is 'any',
\* so the command built from the untouched fields has no proto clause (the
\* claim as stated; the code breaks it)
C16_ProtocolAnyOnParse ==
    pc = "form" =>
        /\ protocols[form_in.protocol + 1] = <<"a","n","y">>
        /\ ~Contains(BuildRule(form_in), <<" ","p","r","o","t","o"," ">>)

\* C17: the fields of an open form are within their limits, from the state
\* the form is opened in (the claim as stated; the code breaks it)
C17_FieldLimits ==
    pc = "form" =>
        /\ Len(form_in.port) <= PortMax
        /\ Len(form_in.ip) <= IpMax
        /\ Len(form_in.service) <= ServiceMax
        /\ Len(form_in.note) <= NoteMax

-----------------------------------------------------------------------------
(* The annotation updates of add and edit *)

\* the step is an add whose external command succeeded
AddSucceeded ==
    /\ last'.op = "add"
    /\ last'.calls # <<>>
    /\ last'.calls[1] = Call("add", <<>>, TRUE)

\* the rule list of the fetch that follows the add command
Refetched == IF last'.calls[2].ok THEN FetchedRules(ext') ELSE <<>>

EditSucceeded ==
    /\ last'.op = "edit"
    /\ Len(last'.calls) >= 2
    /\ last'.calls[1].ok
    /\ last'.calls[2].ok

\* C19: after a successful edit of rule k committed with service s and note
\* t, each store holds the text at k when it is non-empty and no entry at k
\* when it is empty, holds every other entry as before, and each file holds
\* the lines of its store
C19_EditSetsOrRemoves ==
    [][EditSucceeded =>
          LET k == rules[selected_index + 1][1]
              s == last'.texts[1]
              t == last'.texts[2]
          IN  /\ Entry(services', k) = IF s # <<>> THEN <<s>> ELSE <<>>
              /\ Entry(notes', k) = IF t # <<>> THEN <<t>> ELSE <<>>
              /\ \A key \in (KeysOf(services, services')
                               \cup KeysOf(notes, notes')) \ {k} :
                    /\ Entry(services', key) = Entry(services, key)
                    /\ Entry(notes', key) = Entry(notes, key)
              /\ services_file' = SaveLines(services')
              /\ notes_file' = SaveLines(notes')]_vars

\* an edit that removed the service of rule 2 and kept the note of rule 1
C19_Witness ==
    /\ pc = "main"
    /\ last.op = "edit"
    /\ Len(last.calls) = 3
    /\ last.calls[1] = Call("delete", <<"2">>, TRUE)
    /\ last.calls[2] = Call("insert", <<"2">>, TRUE)
    /\ last.texts = << <<>>, <<"w">> >>
    /\ DOMAIN services = {<<"1">>}
    /\ DOMAIN notes = {<<"1">>, <<"2">>}

\* C20: in a committed edit the delete is the first invocation, the insert
\* is issued only as the second invocation and only after a delete that
\* succeeded, and stores and files change only when both succeeded
C20_EditOrdering ==
    [][(last'.op = "edit" /\ last'.outcome = "commit") =>
          /\ last'.calls # <<>>
          /\ last'.calls[1].cmd = "delete"
          /\ \A i \in 1..Len(last'.calls) :
                last'.calls[i].cmd = "insert" => i = 2 /\ last'.calls[1].ok
          /\ ~(UNCHANGED storeVars) => EditSucceeded]_vars

\* an edit whose delete succeeded and whose insert failed
C20_Witness ==
    /\ pc = "main"
    /\ last.op = "edit"
    /\ last.calls = <<Call("delete", <<"1">>, TRUE), Call("insert", <<"1">>, FALSE)>>
    /\ DOMAIN notes # {}

-----------------------------------------------------------------------------
(* Confirmation and selection *)

\* a delete step in which the confirmation dialog was answered
DeleteAnswered == last'.op = "delete" /\ last'.outcome \in {"yes", "no"}

\* C21 as stated: the delete handler invokes the external delete command
\* only when the dialog was answered exactly 'y' or 'Y', and any other
\* answer invokes nothing and changes nothing
C21_DeleteAsStated ==
    [][DeleteAnswered =>
          /\ "delete" \in Cmds(last') =>
                last'.answer \in {<<"y">>, <<"Y">>}
          /\ last'.answer \notin {<<"y">>, <<"Y">>} =>
                /\ last'.calls = <<>>
                /\ UNCHANGED <<ext, rules, notes, services, notes_file,
                               services_file, selected_index>>]_vars

\* C21, amended: the delete handler invokes the external delete command
\* only when the answer, without its surrounding whitespace, is 'y' or 'Y';
\* for any other answer it invokes no external command and the tool's list,
\* the rule list, both stores, both files and the selection are unchanged
C21_DeleteNeedsYes ==
    [][DeleteAnswered =>
          /\ "delete" \in Cmds(last') =>
                Strip(last'.answer) \in {<<"y">>, <<"Y">>}
          /\ Strip(last'.answer) \notin {<<"y">>, <<"Y">>} =>
                /\ last'.calls = <<>>
                /\ UNCHANGED <<ext, rules, notes, services, notes_file,
                               services_file, selected_index>>]_vars

\* a rule selected below the first, the dialog answered 'yes'
C21_Witness ==
    /\ pc = "main"
    /\ last.op = "delete"
    /\ last.answer = <<"y","e","s">>
    /\ last.calls = <<>>
    /\ selected_index = 1
    /\ DOMAIN notes # {}

\* line 107 and line 143: no rule is selected
NothingSelected == rules = <<>> \/ selected_index >= Len(rules)

\* C22: every external delete or insert carries the number of the rule at
\* selected_index in the rule list the handler started with; when that list
\* is empty or selected_index is not below its length, delete and edit
\* invoke no external command, open no dialog or form, and leave the tool's
\* list, both stores and both files unchanged
C22_ActsOnSelectedRule ==
    [][/\ \A i \in 1..Len(last'.calls) :
             last'.calls[i].cmd \in {"delete", "insert"} =>
                 /\ ~NothingSelected
                 /\ last'.calls[i].arg = rules[selected_index + 1][1]
       /\ (last'.op \in {"delete", "edit"} /\ NothingSelected) =>
             /\ last'.calls = <<>>
             /\ last'.outcome = "none"
             /\ UNCHANGED <<ext, notes, services, notes_file,
                            services_file>>]_vars

\* a delete of the second rule of two
C22_Witness ==
    /\ pc = "main"
    /\ last.op = "delete"
    /\ last.calls # <<>>
    /\ last.calls[1] = Call("delete", <<"2">>, TRUE)
    /\ Len(ext) = 1

\* C23: while the loop waits for input the selection is not negative, and
\* is below the length of the rule list when that list is not empty (the
\* claim as stated; the code breaks it)
C23_SelectionInRange ==
    pc = "main" =>
        /\ selected_index >= 0
        /\ rules # <<>> => selected_index < Len(rules)

=============================================================================
